---- MODULE Spec2Model ----
(***************************************************************************)
(* The VetCo messaging routes (backend/src/routes/messages.ts) over the    *)
(* Message table: POST /api/messages, GET /api/messages and                *)
(* GET /api/messages/conversations, called by requesters that passed       *)
(* authenticateToken.  GetMessages takes the values getMessagesSchema      *)
(* yields; every variable is database state except resp, which records     *)
(* the request served last and the response it was given.                  *)
(***************************************************************************)
EXTENDS Naturals, Integers, Sequences, FiniteSets, TLC

(* ------------------------------ bounds -------------------------------- *)
\* rows the Message table may hold in the model
MaxMessages == 2
\* largest page size (take) a conversation is fetched with
MaxLimit == 1
\* largest number of rows (skip) a fetch leaves out
MaxOffset == 0

(* ------------------------- tables and identities ---------------------- *)
\* the contents of the User and Veterinarian tables the model starts from;
\* ids are unique across both tables, and no request modelled here adds or
\* removes a row of either
Populations ==
  {[users |-> {"u1", "u2"}, vets |-> {"v1"}],
   [users |-> {"u1"}, vets |-> {"v1", "v2"}]}
\* every id some population holds
AllIds == {"u1", "u2", "v1", "v2"}
\* an id that is in neither table
UnknownId == "zz"
\* a nullable column that is not set / a relation that was not included
Null == "null"
\* message bodies submitted by the clients; "" fails z.string().min(1)
Contents == {"", "hi"}

RecipientTypes == {"user", "veterinarian"}

VARIABLES
  users,      \* the ids of the User table
  vets,       \* the ids of the Veterinarian table
  messages,   \* the Message table: sequence of rows, row i has id i
  now,        \* the database clock that stamps new rows
  resp,       \* the request just served and the response it got
  pets,       \* the Pet table: pet id -> [ownerId, species]
  breathingRates, \* the BreathingRate table: sequence of rows, row i has id i
  arg,        \* the argument a helper function is applied to
  ret,        \* what the helper function applied last returned
  \* the notification service
  reminders,  \* the Reminder table: sequence of rows, row i has id i
  pushTokens, \* the PushToken table: the users that have a token
  cronTasks,  \* the tasks registered with node-cron
  pushes,     \* the push notifications handed to Firebase so far
  firebaseInitialized,
  \* the state of the web messages page
  conversations, selectedConversation, veterinarians,
  inflight,   \* the requests of the page that are under way
  \* the state of the web record-breathing page
  isRecording, countdown, breathCount, breathingRate,
  timers,     \* the interval timers that are running
  \* the state of the AuthProvider
  authUser, authToken, storedToken,
  authCalls   \* the calls of the provider that await the network

reminderVars ==
  <<reminders, pushTokens, cronTasks, pushes, firebaseInitialized>>
pageVars == <<conversations, selectedConversation, veterinarians, inflight>>
recorderVars == <<isRecording, countdown, breathCount, breathingRate, timers>>
authVars == <<authUser, authToken, storedToken, authCalls>>

\* the variables of the notification service and of the client applications
appVars == <<reminderVars, pageVars, recorderVars, authVars>>

vars ==
  <<users, vets, messages, now, resp, pets, breathingRates, arg, ret, appVars>>

\* no helper function has been applied
NoCall == [fn |-> "none", value |-> Null]

\* the variables the message routes never touch
breathingVars == <<pets, breathingRates, arg, ret>>

\* no reminder exists, no page is open and nobody is logged in
ReminderIdle ==
  /\ reminders = <<>>
  /\ pushTokens = {}
  /\ cronTasks = {}
  /\ pushes = {}
  /\ firebaseInitialized = FALSE

PageIdle ==
  /\ conversations = <<>>
  /\ selectedConversation = Null
  /\ veterinarians = {}
  /\ inflight = {}

RecorderIdle ==
  /\ isRecording = FALSE
  /\ countdown = 0
  /\ breathCount = 0
  /\ breathingRate = <<>>
  /\ timers = {}

AuthIdle ==
  /\ authUser = <<>>
  /\ authToken = <<>>
  /\ storedToken = <<>>
  /\ authCalls = {}

AppsIdle == ReminderIdle /\ PageIdle /\ RecorderIdle /\ AuthIdle

\* req.user as authenticateToken builds it: the row exists in the table the
\* token's type selects, and the type is one the auth routes sign
AuthRequesters ==
  {[id |-> u, type |-> "user"] : u \in users}
    \cup {[id |-> v, type |-> "veterinarian"] : v \in vets}

(* ------------------------------ helpers ------------------------------- *)
Min(a, b) == IF a <= b THEN a ELSE b

\* the sender / recipient of a row as a tagged participant
SenderOf(m) ==
  IF m.senderId # Null THEN [id |-> m.senderId, type |-> "user"]
  ELSE [id |-> m.vetSenderId, type |-> "veterinarian"]

RecipientOf(m) ==
  IF m.recipientId # Null THEN [id |-> m.recipientId, type |-> "user"]
  ELSE [id |-> m.vetRecipientId, type |-> "veterinarian"]

\* m was exchanged between participants a and b, in either direction
Exchanged(m, a, b) ==
  \/ SenderOf(m) = a /\ RecipientOf(m) = b
  \/ SenderOf(m) = b /\ RecipientOf(m) = a

Rows == {messages[i] : i \in DOMAIN messages}

(* --------------------------- POST /api/messages ----------------------- *)
\* sendMessageSchema.parse(req.body)
SendBodyValid(recipientId, content, recipientType) ==
  /\ Len(content) >= 1
  /\ recipientType \in RecipientTypes

\* the mutant of RecipientExists: the id is looked up in both tables
RecipientInEitherTable(recipientId, recipientType) ==
  recipientId \in users \cup vets

\* prisma.veterinarian.findUnique / prisma.user.findUnique on the recipient
RecipientExists(recipientId, recipientType) ==
  IF recipientType = "veterinarian" THEN recipientId \in vets
  ELSE recipientId \in users

\* the mutant of MessageData: the veterinarian sender is written to senderId
MessageDataVetAsUser(user, recipientId, content, recipientType) ==
  [content |-> content,
   senderId |-> user.id,
   vetSenderId |-> Null,
   recipientId |-> IF recipientType = "user" THEN recipientId ELSE Null,
   vetRecipientId |-> IF recipientType = "veterinarian" THEN recipientId ELSE Null]

\* messageData: which of the four identity columns the handler fills in
MessageData(user, recipientId, content, recipientType) ==
  IF user.type = "user" THEN
    IF recipientType = "veterinarian"
    THEN [content |-> content, senderId |-> user.id, vetSenderId |-> Null,
          recipientId |-> Null, vetRecipientId |-> recipientId]
    ELSE [content |-> content, senderId |-> user.id, vetSenderId |-> Null,
          recipientId |-> recipientId, vetRecipientId |-> Null]
  ELSE IF user.type = "veterinarian" THEN
    IF recipientType = "user"
    THEN [content |-> content, senderId |-> Null, vetSenderId |-> user.id,
          recipientId |-> recipientId, vetRecipientId |-> Null]
    ELSE [content |-> content, senderId |-> Null, vetSenderId |-> user.id,
          recipientId |-> Null, vetRecipientId |-> recipientId]
  ELSE [content |-> content, senderId |-> Null, vetSenderId |-> Null,
        recipientId |-> Null, vetRecipientId |-> Null]

\* the columns the table fills in by default on create
MessageDefaults(id, t) ==
  [id |-> id, timestamp |-> t, isRead |-> FALSE]

\* prisma.message.create({ data: messageData })
CreateMessage(data, id, t) ==
  [id |-> MessageDefaults(id, t).id,
   content |-> data.content,
   senderId |-> data.senderId,
   vetSenderId |-> data.vetSenderId,
   recipientId |-> data.recipientId,
   vetRecipientId |-> data.vetRecipientId,
   timestamp |-> MessageDefaults(id, t).timestamp,
   isRead |-> MessageDefaults(id, t).isRead]

\* the fields of resp every request fills in
BaseResp(op, user, status) ==
  [op |-> op, user |-> user, status |-> status,
   recipientId |-> Null, recipientType |-> Null,
   conversationWith |-> Null, conversationType |-> Null,
   messages |-> <<>>, conversations |-> <<>>]

\* t is the reading of the database clock when the row is inserted
SendMessage(user, recipientId, content, recipientType, t) ==
  IF ~SendBodyValid(recipientId, content, recipientType) THEN
    /\ resp' = BaseResp("send", user, 400)
    /\ UNCHANGED <<users, vets, messages, now>>
  ELSE IF ~RecipientExists(recipientId, recipientType) THEN
    /\ resp' = BaseResp("send", user, 404)
    /\ UNCHANGED <<users, vets, messages, now>>
  ELSE
    /\ Len(messages) < MaxMessages
    /\ t >= now
    /\ now' = t
    /\ messages' = Append(messages,
         CreateMessage(MessageData(user, recipientId, content, recipientType),
                       Len(messages) + 1, t))
    /\ resp' = [BaseResp("send", user, 201) EXCEPT
                  !.recipientId = recipientId, !.recipientType = recipientType,
                  !.messages = <<messages'[Len(messages')]>>]
    /\ UNCHANGED <<users, vets>>

(* ------------------------ findMany ... orderBy ------------------------ *)
\* the mutant of OrderedBefore: orderBy timestamp 'asc'
OrderedBeforeAsc(a, b) == a.timestamp <= b.timestamp

\* orderBy: { timestamp: 'desc' }: row a may precede row b in the result
OrderedBefore(a, b) == a.timestamp >= b.timestamp

\* the results findMany may return for the rows S: every row once, ordered
\* by timestamp descending, rows with equal timestamps in any order
RECURSIVE FindManyDesc(_)
FindManyDesc(S) ==
  IF S = {} THEN {<<>>}
  ELSE UNION {{<<m>> \o rest : rest \in FindManyDesc(S \ {m})} :
                m \in {x \in S : \A y \in S : OrderedBefore(x, y)}}

(* --------------------------- GET /api/messages ------------------------ *)
\* whereClause: the rows of the conversation between req.user and
\* conversationWith, by requester kind and conversationType
WhereClause(user, conversationWith, conversationType, m) ==
  IF user.type = "user" THEN
    IF conversationType = "veterinarian"
    THEN \/ m.senderId = user.id /\ m.vetRecipientId = conversationWith
         \/ m.vetSenderId = conversationWith /\ m.recipientId = user.id
    ELSE \/ m.senderId = user.id /\ m.recipientId = conversationWith
         \/ m.senderId = conversationWith /\ m.recipientId = user.id
  ELSE IF user.type = "veterinarian" THEN
    IF conversationType = "user"
    THEN \/ m.vetSenderId = user.id /\ m.recipientId = conversationWith
         \/ m.senderId = conversationWith /\ m.vetRecipientId = user.id
    ELSE \/ m.vetSenderId = user.id /\ m.vetRecipientId = conversationWith
         \/ m.vetSenderId = conversationWith /\ m.vetRecipientId = user.id
  ELSE TRUE

\* the mutant of Page: take without skip
PageNoSkip(sorted, limit, offset) ==
  SubSeq(sorted, 1, Min(limit, Len(sorted)))

\* take: limit, skip: offset on the ordered result
Page(sorted, limit, offset) ==
  SubSeq(sorted, offset + 1, Min(offset + limit, Len(sorted)))

\* the mutant of AddressedToViewer: the rows the requester sent are marked
AddressedFromViewer(user, msg) ==
  msg.senderId = user.id \/ msg.vetSenderId = user.id

\* the filter that picks the rows to mark as read
AddressedToViewer(user, msg) ==
  IF user.type = "user"
  THEN msg.recipientId = user.id \/ msg.vetRecipientId = user.id
  ELSE msg.vetRecipientId = user.id \/ msg.recipientId = user.id

\* messageIds: ids of the rows of the page addressed to the requester
MessageIds(user, page) ==
  {page[i].id : i \in {k \in DOMAIN page : AddressedToViewer(user, page[k])}}

\* the mutant of UpdateManyRead: the flag is flipped instead of set
UpdateManyToggle(table, ids) ==
  [i \in DOMAIN table |->
     IF table[i].id \in ids
     THEN [table[i] EXCEPT !.isRead = ~table[i].isRead]
     ELSE table[i]]

\* updateMany({ where: { id: { in: ids }, isRead: false }, data: { isRead: true } })
UpdateManyRead(table, ids) ==
  [i \in DOMAIN table |->
     IF table[i].id \in ids /\ table[i].isRead = FALSE
     THEN [table[i] EXCEPT !.isRead = TRUE]
     ELSE table[i]]

\* messages.reverse(): oldest first
Reverse(s) == [i \in 1..Len(s) |-> s[Len(s) + 1 - i]]

GetMessages(user, conversationWith, conversationType, limit, offset) ==
  \E sorted \in FindManyDesc({m \in Rows :
                    WhereClause(user, conversationWith, conversationType, m)}) :
    LET page == Page(sorted, limit, offset)
        ids == MessageIds(user, page)
    IN /\ messages' = IF ids # {} THEN UpdateManyRead(messages, ids) ELSE messages
       /\ resp' = [BaseResp("get", user, 200) EXCEPT
                     !.conversationWith = conversationWith,
                     !.conversationType = conversationType,
                     !.messages = Reverse(page)]
       /\ UNCHANGED <<users, vets, now>>

(* --------------------- GET /api/messages/conversations ---------------- *)
NoPartner == [id |-> Null, type |-> Null]

\* partnerId / partnerInfo of a row for a requester of kind user
UserPartner(msg, me) ==
  IF msg.vetSenderId # Null /\ msg.recipientId = me
    THEN [id |-> msg.vetSenderId, type |-> "veterinarian"]
  ELSE IF msg.vetRecipientId # Null /\ msg.senderId = me
    THEN [id |-> msg.vetRecipientId, type |-> "veterinarian"]
  ELSE IF msg.senderId # Null /\ msg.recipientId = me
    THEN [id |-> msg.senderId, type |-> "user"]
  ELSE IF msg.recipientId # Null /\ msg.senderId = me
    THEN [id |-> msg.recipientId, type |-> "user"]
  ELSE NoPartner

\* partnerId / partnerInfo of a row for a requester of kind veterinarian
VetPartner(msg, me) ==
  IF msg.senderId # Null /\ msg.vetRecipientId = me
    THEN [id |-> msg.senderId, type |-> "user"]
  ELSE IF msg.recipientId # Null /\ msg.vetSenderId = me
    THEN [id |-> msg.recipientId, type |-> "user"]
  ELSE NoPartner

\* conversationMap.has(partnerId); the map is kept in insertion order
MapHas(map, partnerId) ==
  \E i \in DOMAIN map : map[i].partner.id = partnerId

\* the mutant of MapSetIfAbsent: entries are pushed without the has() test
MapPushAlways(map, partner, msg) ==
  IF partner.id # Null
  THEN Append(map, [partner |-> partner, lastMessage |-> msg, unreadCount |-> 0])
  ELSE map

\* the mutant of MapSetIfAbsent: set() runs for every row, so a later (older)
\* row replaces the value of a key already present
MapSetOverwrite(map, partner, msg) ==
  IF partner.id = Null THEN map
  ELSE IF MapHas(map, partner.id)
  THEN [i \in DOMAIN map |->
          IF map[i].partner.id = partner.id
          THEN [partner |-> partner, lastMessage |-> msg, unreadCount |-> 0]
          ELSE map[i]]
  ELSE Append(map, [partner |-> partner, lastMessage |-> msg, unreadCount |-> 0])

\* the mutant of MapSetIfAbsent: the entry counts its first row when unread
MapSetCountUnread(map, partner, msg) ==
  IF partner.id # Null /\ ~MapHas(map, partner.id)
  THEN Append(map, [partner |-> partner, lastMessage |-> msg,
                    unreadCount |-> IF msg.isRead THEN 0 ELSE 1])
  ELSE map

\* if (partnerId && !conversationMap.has(partnerId)) conversationMap.set(...)
MapSetIfAbsent(map, partner, msg) ==
  IF partner.id # Null /\ ~MapHas(map, partner.id)
  THEN Append(map, [partner |-> partner, lastMessage |-> msg, unreadCount |-> 0])
  ELSE map

\* userConversations.forEach(...) / vetConversations.forEach(...)
RECURSIVE GroupByPartner(_, _, _)
GroupByPartner(msgs, user, map) ==
  IF msgs = <<>> THEN map
  ELSE LET msg == Head(msgs)
           partner == IF user.type = "user" THEN UserPartner(msg, user.id)
                      ELSE VetPartner(msg, user.id)
       IN GroupByPartner(Tail(msgs), user, MapSetIfAbsent(map, partner, msg))

\* the where of the two findMany calls that feed the grouping
InvolvesViewer(user, m) ==
  IF user.type = "user"
  THEN m.senderId = user.id \/ m.recipientId = user.id
  ELSE m.vetSenderId = user.id \/ m.vetRecipientId = user.id

GetConversations(user) ==
  \E sorted \in FindManyDesc({m \in Rows : InvolvesViewer(user, m)}) :
    /\ resp' = [BaseResp("conversations", user, 200) EXCEPT
                  !.conversations = GroupByPartner(sorted, user, <<>>)]
    /\ UNCHANGED <<users, vets, messages, now>>

Init ==
  /\ \E p \in Populations : users = p.users /\ vets = p.vets
  /\ messages = <<>>
  /\ now = 0
  /\ resp = BaseResp("none", [id |-> Null, type |-> Null], 0)
  /\ pets = <<>>
  /\ breathingRates = <<>>
  /\ arg = Null
  /\ ret = NoCall
  /\ AppsIdle

\* a client posts any body: a recipient id of either table or of none, any
\* recipientType, an empty or a non-empty content; the insert happens at the
\* clock reading of the previous insert or later
Send ==
  \E user \in AuthRequesters, recipientId \in AllIds \cup {UnknownId},
     content \in Contents, recipientType \in RecipientTypes,
     t \in {now, now + 1} :
    /\ SendMessage(user, recipientId, content, recipientType, t)
    /\ UNCHANGED <<breathingVars, appVars>>

\* a client posts a body that passes validation to a recipient that exists,
\* and the clock has advanced since the previous insert
SendDelivered ==
  \E user \in AuthRequesters, recipient \in AuthRequesters,
     content \in Contents \ {""} :
    /\ SendMessage(user, recipient.id, content, recipient.type, now + 1)
    /\ UNCHANGED <<breathingVars, appVars>>

\* a client opens the conversation with a participant of either kind
Fetch ==
  \E user \in AuthRequesters, partner \in AuthRequesters,
     limit \in 1..MaxLimit, offset \in 0..MaxOffset :
    /\ GetMessages(user, partner.id, partner.type, limit, offset)
    /\ UNCHANGED <<breathingVars, appVars>>

\* a client lists its conversations
List ==
  \E user \in AuthRequesters :
    GetConversations(user) /\ UNCHANGED <<breathingVars, appVars>>

Next == Send \/ Fetch \/ List

Spec == Init /\ [][Next]_vars

\* the message routes as the conversation list sees them
NextConversations == Send \/ List

SpecConversations == Init /\ [][NextConversations]_vars

\* the three routes with every message delivered at a later clock reading
NextMessages == SendDelivered \/ Fetch \/ List

SpecMessages == Init /\ [][NextMessages]_vars

(* ============================== claims ================================ *)
\* the conversation GET /api/messages names, as a participant
RequestedPartner ==
  [id |-> resp.conversationWith, type |-> resp.conversationType]

ListServed == resp.op = "conversations" /\ resp.status = 200
FetchServed == resp.op = "get" /\ resp.status = 200
SendServed == resp.op = "send" /\ resp.status = 201

\* C1: the list of conversations never holds two entries with the same
\* partner id
C1_NoDuplicatePartner ==
  ListServed =>
    \A i, j \in DOMAIN resp.conversations :
      i # j => resp.conversations[i].partner.id # resp.conversations[j].partner.id

\* C1 witness: a list was served in which one partner has exchanged two
\* messages with the viewer and is listed
C1_Witness ==
  /\ ListServed
  /\ \E i \in DOMAIN resp.conversations :
       Cardinality({m \in Rows :
          Exchanged(m, resp.user, resp.conversations[i].partner)}) >= 2

\* C2: the lastMessage of every listed conversation is a stored message
\* exchanged between the viewer and that partner, and no message exchanged
\* between them (in either direction) has a greater timestamp
C2_LastMessageIsNewest ==
  ListServed =>
    \A i \in DOMAIN resp.conversations :
      LET c == resp.conversations[i]
      IN /\ c.lastMessage \in Rows
         /\ Exchanged(c.lastMessage, resp.user, c.partner)
         /\ \A m \in Rows :
              Exchanged(m, resp.user, c.partner)
                => m.timestamp <= c.lastMessage.timestamp

\* C2 witness: a listed conversation whose partner sent one message to the
\* viewer and received a later one from the viewer
C2_Witness ==
  /\ ListServed
  /\ \E i \in DOMAIN resp.conversations :
       \E m1, m2 \in Rows :
         /\ SenderOf(m1) = resp.conversations[i].partner
         /\ RecipientOf(m1) = resp.user
         /\ SenderOf(m2) = resp.user
         /\ RecipientOf(m2) = resp.conversations[i].partner
         /\ m1.timestamp < m2.timestamp
         /\ resp.user # resp.conversations[i].partner

\* C3: every participant other than the viewer that has exchanged a message
\* with the viewer is the partner of a listed conversation
C3_EveryPartnerListed ==
  ListServed =>
    \A m \in Rows : \A p \in {SenderOf(m), RecipientOf(m)} :
      (p # resp.user /\ Exchanged(m, resp.user, p))
        => \E i \in DOMAIN resp.conversations : resp.conversations[i].partner = p

\* C4: the listed conversations are ordered by the timestamp of their
\* lastMessage, newest first
C4_RecencyOrdered ==
  ListServed =>
    \A i, j \in DOMAIN resp.conversations :
      i < j => resp.conversations[i].lastMessage.timestamp
                 >= resp.conversations[j].lastMessage.timestamp

\* C4 witness: a list of two conversations whose last messages have
\* different timestamps
C4_Witness ==
  /\ ListServed
  /\ Len(resp.conversations) >= 2
  /\ resp.conversations[1].lastMessage.timestamp
       # resp.conversations[2].lastMessage.timestamp

\* C5: every stored message has exactly one of senderId / vetSenderId and
\* exactly one of recipientId / vetRecipientId set, and the message a POST
\* has just stored names the requester (in the column of the requester's
\* kind) as sender and the posted recipientId (in the column recipientType
\* selects) as recipient
C5_OneSenderOneRecipient ==
  /\ \A m \in Rows :
       /\ (m.senderId = Null) # (m.vetSenderId = Null)
       /\ (m.recipientId = Null) # (m.vetRecipientId = Null)
  /\ SendServed =>
       LET m == messages[Len(messages)]
       IN /\ resp.messages = <<m>>
          /\ SenderOf(m) = resp.user
          /\ RecipientOf(m) = [id |-> resp.recipientId, type |-> resp.recipientType]

\* C5 witness: a veterinarian's POST to a user was stored after an earlier
\* message of a user
C5_Witness ==
  /\ SendServed
  /\ resp.user.type = "veterinarian"
  /\ resp.recipientType = "user"
  /\ \E m \in Rows : m.senderId # Null

\* C6: no stored message has the same participant as sender and recipient,
\* and no listed conversation has the viewer as its partner
C6_NoSelfMessage ==
  /\ \A m \in Rows : SenderOf(m) # RecipientOf(m)
  /\ ListServed =>
       \A i \in DOMAIN resp.conversations :
         resp.conversations[i].partner # resp.user

C8_ReadMonotonic ==
  [][/\ Len(messages') >= Len(messages)
     /\ \A i \in DOMAIN messages :
          /\ messages'[i] = [messages[i] EXCEPT !.isRead = messages'[i].isRead]
          /\ messages[i].isRead => messages'[i].isRead
     /\ \A i \in DOMAIN messages' \ DOMAIN messages : ~messages'[i].isRead]_vars

\* C8 witness: a message that was already read is fetched again by its
\* recipient, with a message stored after it was read
C8_Witness ==
  /\ FetchServed
  /\ \E i \in DOMAIN resp.messages :
       /\ RecipientOf(resp.messages[i]) = resp.user
       /\ resp.messages[i].isRead
  /\ \E m \in Rows : ~m.isRead

\* C9: a GET /api/messages step changes isRead only on messages of the
\* requested conversation whose recipient is the viewer, and never on a
\* message the viewer sent
C9_FetchMarksOnlyReceived ==
  [][resp'.op = "get" =>
       \A i \in DOMAIN messages :
         messages'[i].isRead # messages[i].isRead =>
           /\ RecipientOf(messages[i]) = resp'.user
           /\ SenderOf(messages[i]) # resp'.user
           /\ Exchanged(messages[i], resp'.user,
                 [id |-> resp'.conversationWith, type |-> resp'.conversationType])]_vars

\* C10: every listed conversation reports unreadCount = 0
C10_UnreadCountZero ==
  ListServed =>
    \A i \in DOMAIN resp.conversations : resp.conversations[i].unreadCount = 0

\* C10 witness: a list is served in which the last message of one
\* conversation is an unread message the partner sent to the viewer, while
\* another stored message has been read
C10_Witness ==
  /\ ListServed
  /\ \E i \in DOMAIN resp.conversations :
       /\ ~resp.conversations[i].lastMessage.isRead
       /\ RecipientOf(resp.conversations[i].lastMessage) = resp.user
       /\ SenderOf(resp.conversations[i].lastMessage) # resp.user
  /\ \E m \in Rows : m.isRead

\* C11: the unreadCount of every listed conversation is the number of
\* stored messages the partner sent to the viewer that have isRead = FALSE
C11_UnreadCountCounts ==
  ListServed =>
    \A i \in DOMAIN resp.conversations :
      resp.conversations[i].unreadCount =
        Cardinality({m \in Rows :
          /\ SenderOf(m) = resp.conversations[i].partner
          /\ RecipientOf(m) = resp.user
          /\ ~m.isRead})

(* ===================== breathing rates: helper functions =============== *)
MaxRates == 7
RateValues == {1, 2, 3, 4}
Take == 30

\* rows of one pet as findMany returns them under orderBy timestamp desc:
\* position 1 is the newest row
Measurements(rs) ==
  [i \in 1..Len(rs) |->
     [id |-> Len(rs) + 1 - i, petId |-> "p1", rate |-> rs[i],
      notes |-> Null, timestamp |-> Len(rs) + 1 - i]]

\* every short list of small rates, and one list of everyday rates: three
\* recent measurements at 20 and three older ones at 30
RateLists ==
  UNION {[1..n -> RateValues] : n \in 0..MaxRates}
    \cup {<<20, 20, 20, 30, 30, 30>>}

\* rates.map(r => r.rate)
RateValuesOf(rates) == [i \in 1..Len(rates) |-> rates[i].rate]

\* values.reduce((sum, rate) => sum + rate, 0)
RECURSIVE ReduceSum(_)
ReduceSum(values) ==
  IF values = <<>> THEN 0 ELSE Head(values) + ReduceSum(Tail(values))

\* the mutant of MathMin: the first value of the list
MathMinHead(values) == values[1]

\* Math.min(...values), Math.max(...values) of a non-empty list
MathMin(values) ==
  CHOOSE v \in {values[i] : i \in DOMAIN values} :
    \A i \in DOMAIN values : v <= values[i]

MathMax(values) ==
  CHOOSE v \in {values[i] : i \in DOMAIN values} :
    \A i \in DOMAIN values : v >= values[i]

\* Math.round(sum / n) for sum >= 0 and n > 0: the nearest integer, a half
\* rounding up; the double sum / n is on the same side of every half as the
\* exact quotient for the sums and lengths reached here
MathRoundDiv(sum, n) == (2 * sum + n) \div (2 * n)

\* calculateBreathingRateStats once findMany has delivered the rows
CalculateBreathingRateStats(rates) ==
  IF Len(rates) = 0 THEN [count |-> 0, average |-> 0, min |-> 0, max |-> 0]
  ELSE LET rateValues == RateValuesOf(rates)
       IN [count |-> Len(rates),
           average |-> MathRoundDiv(ReduceSum(rateValues), Len(rates)),
           min |-> MathMin(rateValues),
           max |-> MathMax(rateValues)]

(* ---- double precision division, as calculateTrend uses it ------------ *)
RECURSIVE Pow2(_)
Pow2(e) == IF e = 0 THEN 1 ELSE 2 * Pow2(e - 1)

\* the binary exponent of sum / n for sum >= n: the largest e with
\* n * 2^e <= sum
RECURSIVE QuotExp(_, _, _)
QuotExp(sum, n, e) ==
  IF n * Pow2(e + 1) <= sum THEN QuotExp(sum, n, e + 1) ELSE e

\* the signed rounding error of the double sum / n, computed minus exact, in
\* units of 2^-52 / 3.  Division by 1 or 2 and every exact quotient is
\* representable; a third is rounded to 53 significant bits, to nearest.
\* (n = 3 is only reached with sum >= 3: three positive integer rates.)
DivError(sum, n) ==
  IF n \in {1, 2} \/ sum % n = 0 THEN 0
  ELSE LET e == QuotExp(sum, n, 0)
           t == (Pow2(e % 2) * (sum % n)) % n
       IN IF t = 1 THEN 0 - Pow2(e) ELSE Pow2(e)

\* sum / n as a double: the exact fraction and the rounding error added
Divide(sum, n) == [num |-> sum, den |-> n, err |-> DivError(sum, n)]

\* a - b; the subtraction itself is exact for two means of small integers
Subtract(a, b) ==
  [num |-> a.num * b.den - b.num * a.den, den |-> a.den * b.den,
   err |-> a.err - b.err]

Abs(x) == IF x < 0 THEN 0 - x ELSE x

\* Math.abs(d) < 2
AbsBelowTwo(d) ==
  IF Abs(d.num) # 2 * d.den THEN Abs(d.num) < 2 * d.den
  ELSE (d.num > 0 /\ d.err < 0) \/ (d.num < 0 /\ d.err > 0)

\* d > 0
Positive(d) == d.num > 0 \/ (d.num = 0 /\ d.err > 0)

\* rates.slice(from, to) with 0-based from, exclusive to
Slice(rates, from, to) ==
  LET hi == Min(to, Len(rates))
  IN IF hi <= from THEN <<>>
     ELSE [i \in 1..(hi - from) |-> rates[from + i]]

\* the comparison of the two means, lines 235-241
TrendOf(recent, older) ==
  LET recentAvg == Divide(ReduceSum(RateValuesOf(recent)), Len(recent))
      olderAvg == Divide(ReduceSum(RateValuesOf(older)), Len(older))
      difference == Subtract(recentAvg, olderAvg)
  IN IF AbsBelowTwo(difference) THEN "stable"
     ELSE IF Positive(difference) THEN "increasing" ELSE "decreasing"

\* the mutant of CalculateTrend: two older measurements are enough
CalculateTrendOlderTwo(rates) ==
  IF Len(rates) < 3 THEN "stable"
  ELSE LET recent == Slice(rates, 0, 3)
           older == Slice(rates, 3, 6)
       IN IF Len(recent) < 3 \/ Len(older) < 2 THEN "stable"
          ELSE TrendOf(recent, older)

CalculateTrend(rates) ==
  IF Len(rates) < 3 THEN "stable"
  ELSE LET recent == Slice(rates, 0, 3)
           older == Slice(rates, 3, 6)
       IN IF Len(recent) < 3 \/ Len(older) < 3 THEN "stable"
          ELSE TrendOf(recent, older)

(* ---- getNormalBreathingRange: string case and property lookup -------- *)
\* a species is a string, kept as its sequence of characters
UpperCase == <<"A", "B", "C", "D", "E", "F", "G", "H", "I", "J", "K", "L", "M",
               "N", "O", "P", "Q", "R", "S", "T", "U", "V", "W", "X", "Y", "Z">>
LowerCase == <<"a", "b", "c", "d", "e", "f", "g", "h", "i", "j", "k", "l", "m",
               "n", "o", "p", "q", "r", "s", "t", "u", "v", "w", "x", "y", "z">>

\* species.toLowerCase(): letters A-Z become a-z, all else is kept
ToLowerCase(str) ==
  [i \in DOMAIN str |->
     IF \E k \in DOMAIN UpperCase : UpperCase[k] = str[i]
     THEN LowerCase[CHOOSE k \in DOMAIN UpperCase : UpperCase[k] = str[i]]
     ELSE str[i]]


\* the own properties of the object literal ranges
Ranges ==
  {[key |-> <<"d", "o", "g">>, value |-> [min |-> 10, max |-> 30]],
   [key |-> <<"c", "a", "t">>, value |-> [min |-> 20, max |-> 30]],
   [key |-> <<"r", "a", "b", "b", "i", "t">>, value |-> [min |-> 30, max |-> 60]],
   [key |-> <<"b", "i", "r", "d">>, value |-> [min |-> 15, max |-> 45]]}

\* ranges is an ordinary object: a key it does not own is looked up in
\* Object.prototype, whose properties are functions and objects that have
\* neither a min nor a max property
ObjectPrototype ==
  {[key |-> <<"c", "o", "n", "s", "t", "r", "u", "c", "t", "o", "r">>,
    value |-> [name |-> "Object"]],
   [key |-> <<"_", "_", "p", "r", "o", "t", "o", "_", "_">>,
    value |-> [name |-> "Object.prototype"]],
   [key |-> <<"t", "o", "S", "t", "r", "i", "n", "g">>,
    value |-> [name |-> "toString"]],
   [key |-> <<"v", "a", "l", "u", "e", "O", "f">>,
    value |-> [name |-> "valueOf"]]}

\* ranges[key]: found is FALSE when the read yields undefined
GetProperty(key) ==
  IF \E p \in Ranges : p.key = key
  THEN [found |-> TRUE, value |-> (CHOOSE p \in Ranges : p.key = key).value]
  ELSE IF \E p \in ObjectPrototype : p.key = key
  THEN [found |-> TRUE,
        value |-> (CHOOSE p \in ObjectPrototype : p.key = key).value]
  ELSE [found |-> FALSE, value |-> Null]

\* ranges[species.toLowerCase()]
RangeOfSpecies(species) == GetProperty(ToLowerCase(species))

\* ranges[...] || { min: 15, max: 40 }: every object and function is truthy
GetNormalBreathingRange(species) ==
  LET range == RangeOfSpecies(species)
  IN IF range.found THEN range.value ELSE [min |-> 15, max |-> 40]

\* rate < obj.min, rate > obj.max: a comparison with undefined is false
LessThanProperty(rate, obj, field) ==
  field \in DOMAIN obj /\ rate < obj[field]

GreaterThanProperty(rate, obj, field) ==
  field \in DOMAIN obj /\ rate > obj[field]

CheckBreathingRateAbnormality(petId, rate, species) ==
  LET normalRange == GetNormalBreathingRange(species)
  IN \/ LessThanProperty(rate, normalRange, "min")
     \/ GreaterThanProperty(rate, normalRange, "max")

(* ---- the analytics object of GET /api/breathing/:petId/analytics ----- *)
\* lastMeasurement is kept as a list: empty for null, else the newest row
Analytics(recentRates, species) ==
  [totalMeasurements |-> Len(recentRates),
   averageRate |->
     IF Len(recentRates) > 0
     THEN MathRoundDiv(ReduceSum(RateValuesOf(recentRates)), Len(recentRates))
     ELSE 0,
   minRate |-> IF Len(recentRates) > 0 THEN MathMin(RateValuesOf(recentRates))
               ELSE 0,
   maxRate |-> IF Len(recentRates) > 0 THEN MathMax(RateValuesOf(recentRates))
               ELSE 0,
   trend |-> CalculateTrend(recentRates),
   normalRange |-> GetNormalBreathingRange(species),
   lastMeasurement |-> Slice(recentRates, 0, 1)]

(* ---- the helper functions applied to every bounded measurement list -- *)
SeedSpecies == <<"D", "o", "g">>

\* the tables are empty and no request has been served
SeedPopulation == [users |-> {"u1", "u2"}, vets |-> {"v1"}]

RoutesIdle ==
  /\ users = SeedPopulation.users
  /\ vets = SeedPopulation.vets
  /\ messages = <<>>
  /\ now = 0
  /\ resp = BaseResp("none", [id |-> Null, type |-> Null], 0)
  /\ pets = <<>>
  /\ breathingRates = <<>>
  /\ AppsIdle

InitAnalytics ==
  /\ RoutesIdle
  /\ arg \in {Measurements(rs) : rs \in RateLists}
  /\ ret = NoCall

Return(fn, value) ==
  /\ ret = NoCall
  /\ ret' = [fn |-> fn, value |-> value]
  /\ UNCHANGED <<users, vets, messages, now, resp, pets, breathingRates, arg,
               appVars>>

ApplyStats == Return("stats", CalculateBreathingRateStats(arg))
ApplyTrend == Return("trend", CalculateTrend(arg))
ApplyAnalytics == Return("analytics", Analytics(arg, SeedSpecies))

NextAnalytics == ApplyStats \/ ApplyTrend \/ ApplyAnalytics

SpecAnalytics == InitAnalytics /\ [][NextAnalytics]_vars

(* ---- claims about the statistics and the trend ----------------------- *)
\* the rates of the measurement list the function was applied to
ArgRates == RateValuesOf(arg)

\* v is the mean of ArgRates rounded to a nearest integer
NearestToMean(v) ==
  2 * Abs(v * Len(arg) - ReduceSum(ArgRates)) <= Len(arg)

\* C12: for every non-empty list of positive integer rates the analytics
\* satisfy minRate <= averageRate <= maxRate with averageRate the mean
\* rounded to the nearest integer, and the history statistics satisfy
\* min <= average <= max likewise
C12_AverageBetweenMinMax ==
  /\ (ret.fn = "analytics" /\ Len(arg) > 0) =>
       /\ ret.value.minRate <= ret.value.averageRate
       /\ ret.value.averageRate <= ret.value.maxRate
       /\ NearestToMean(ret.value.averageRate)
  /\ (ret.fn = "stats" /\ Len(arg) > 0) =>
       /\ ret.value.min <= ret.value.average
       /\ ret.value.average <= ret.value.max
       /\ NearestToMean(ret.value.average)

\* C12 witness: statistics of a list whose newest rate is not its smallest,
\* with the average strictly between the minimum and the maximum
C12_Witness ==
  /\ ret.fn = "stats"
  /\ Len(arg) > 1
  /\ ret.value.min < arg[1].rate
  /\ ret.value.min < ret.value.average
  /\ ret.value.average < ret.value.max

\* C13: with fewer than 6 measurements (0 to 5) the trend is "stable"
C13_FewMeasurementsStable ==
  /\ (ret.fn = "trend" /\ Len(arg) < 6) => ret.value = "stable"
  /\ (ret.fn = "analytics" /\ Len(arg) < 6) => ret.value.trend = "stable"

\* C13 witness: the trend of five measurements whose three newest rates
\* exceed the two older ones by 3
C13_Witness ==
  /\ ret.fn = "trend"
  /\ Len(arg) = 5
  /\ \A i \in 1..3 : arg[i].rate = 4
  /\ \A i \in 4..5 : arg[i].rate = 1

\* the sum of the rates at positions from..to (1-based) of the list
SumAt(from, to) == ReduceSum([i \in 1..(to - from + 1) |-> ArgRates[from + i - 1]])

\* C14: with 6 or more measurements, newest first, the trend is decided by
\* the mean of positions 0-2 against the mean of positions 3-5 alone:
\* "stable" exactly when the means differ by strictly less than 2 (the sums
\* by strictly less than 6), otherwise "increasing" when the recent mean is
\* greater and "decreasing" when it is smaller
C14_TrendComparesMeans ==
  (ret.fn = "trend" /\ Len(arg) >= 6) =>
    ret.value =
      IF Abs(SumAt(1, 3) - SumAt(4, 6)) < 6 THEN "stable"
      ELSE IF SumAt(1, 3) > SumAt(4, 6) THEN "increasing"
      ELSE "decreasing"

(* ---- the range lookup applied to species strings and rates ----------- *)
MaxRate == 61

\* species as pets.ts accepts them: any non-empty string
SpeciesNames ==
  {<<"d", "o", "g">>, <<"D", "o", "g">>, <<"D", "O", "G">>, <<"d", "O", "g">>,
   <<"c", "a", "t">>, <<"C", "A", "T">>,
   <<"r", "a", "b", "b", "i", "t">>, <<"R", "a", "b", "b", "i", "t">>,
   <<"b", "i", "r", "d">>, <<"B", "I", "R", "D">>,
   <<"f", "i", "s", "h">>, <<"H", "a", "m", "s", "t", "e", "r">>,
   <<"d", "o", "g", "s">>, <<"d", "o">>,
   <<"c", "o", "n", "s", "t", "r", "u", "c", "t", "o", "r">>,
   <<"C", "o", "n", "s", "t", "r", "u", "c", "t", "o", "r">>,
   <<"_", "_", "p", "r", "o", "t", "o", "_", "_">>,
   <<"t", "o", "S", "t", "r", "i", "n", "g">>,
   <<"v", "a", "l", "u", "e", "O", "f">>}

InitRange ==
  /\ RoutesIdle
  /\ arg \in [species : SpeciesNames, rate : 1..MaxRate]
  /\ ret = NoCall

ApplyRange == Return("range", GetNormalBreathingRange(arg.species))

ApplyAbnormality ==
  Return("abnormal", CheckBreathingRateAbnormality("p1", arg.rate, arg.species))

NextRange == ApplyRange \/ ApplyAbnormality

SpecRange == InitRange /\ [][NextRange]_vars

(* ---- claims about the normal range and the abnormality flag ---------- *)
\* the two strings are equal up to the case of their letters
SameIgnoringCase(a, b) == ToLowerCase(a) = ToLowerCase(b)

\* the normal range the specification gives a species
StatedRange(species) ==
  IF SameIgnoringCase(species, <<"d", "o", "g">>) THEN [min |-> 10, max |-> 30]
  ELSE IF SameIgnoringCase(species, <<"c", "a", "t">>)
  THEN [min |-> 20, max |-> 30]
  ELSE IF SameIgnoringCase(species, <<"r", "a", "b", "b", "i", "t">>)
  THEN [min |-> 30, max |-> 60]
  ELSE IF SameIgnoringCase(species, <<"b", "i", "r", "d">>)
  THEN [min |-> 15, max |-> 45]
  ELSE [min |-> 15, max |-> 40]

\* C15: the normal range lookup is case-insensitive and total: dog 10-30,
\* cat 20-30, rabbit 30-60, bird 15-45 in any letter case, and every other
\* species string gives the default 15-40
C15_RangeLookupTotal ==
  ret.fn = "range" => ret.value = StatedRange(arg.species)

\* C16: a rate is flagged abnormal exactly when it is strictly below the
\* normal minimum of the species or strictly above its normal maximum; a
\* rate equal to the minimum or the maximum is not flagged
C16_AbnormalOutsideRange ==
  ret.fn = "abnormal" =>
    (ret.value <=> \/ arg.rate < StatedRange(arg.species).min
                   \/ arg.rate > StatedRange(arg.species).max)

(* ======================== /api/breathing routes ======================== *)
MaxBreathingRows == 2
DefaultLimit == 50

PetIds == {"p1", "p2"}

\* the Pet tables: p1 belongs to u1 and is a dog or a pet whose species was
\* entered as "constructor"; p2 belongs to u2
PetTables ==
  {[p \in PetIds |->
      IF p = "p1" THEN [ownerId |-> "u1", species |-> species]
      ELSE [ownerId |-> "u2", species |-> SeedSpecies]] :
     species \in {SeedSpecies,
                  <<"c", "o", "n", "s", "t", "r", "u", "c", "t", "o", "r">>}}

\* a JSON value sent as rate: a number, given in halves so that 3 halves is
\* 1.5, or the string "20"
RawRates ==
  {[kind |-> "number", halves |-> h] : h \in {0 - 2, 0, 3, 10, 40, 100}}
    \cup {[kind |-> "string", halves |-> 40]}

\* the mutant of RateValid: z.number().int()
RateValidAnyInteger(rate) == rate.kind = "number" /\ rate.halves % 2 = 0

\* z.number().int().positive()
RateValid(rate) ==
  /\ rate.kind = "number"
  /\ rate.halves % 2 = 0
  /\ rate.halves > 0

\* prisma.pet.findFirst({ where: { id: petId, ownerId: req.user.id } })
FindPet(petId, ownerId) ==
  petId \in DOMAIN pets /\ pets[petId].ownerId = ownerId

BreathingResp(op, user, status, petId) ==
  [op |-> op, user |-> user, status |-> status, petId |-> petId,
   rate |-> Null, breathingRate |-> <<>>, alert |-> Null,
   breathingRates |-> <<>>, stats |-> Null, analytics |-> Null]

Unanswered == BreathingResp("none", [id |-> Null, type |-> Null], 0, Null)

\* POST /api/breathing; t is the database clock when the row is inserted
RecordBreathingRate(user, petId, rate, notes, t) ==
  LET answer(status) ==
        [BreathingResp("record", user, status, petId) EXCEPT !.rate = rate]
  IN
  IF user.type # "user" THEN
    /\ resp' = answer(403)
    /\ UNCHANGED <<breathingRates, now>>
  ELSE IF ~RateValid(rate) THEN
    /\ resp' = answer(400)
    /\ UNCHANGED <<breathingRates, now>>
  ELSE IF ~FindPet(petId, user.id) THEN
    /\ resp' = answer(404)
    /\ UNCHANGED <<breathingRates, now>>
  ELSE
    /\ Len(breathingRates) < MaxBreathingRows
    /\ now' = t
    /\ breathingRates' = Append(breathingRates,
         [id |-> Len(breathingRates) + 1, petId |-> petId,
          rate |-> rate.halves \div 2, notes |-> notes, timestamp |-> t])
    /\ resp' = [answer(201) EXCEPT
         !.breathingRate = <<breathingRates'[Len(breathingRates')]>>,
         !.alert = IF CheckBreathingRateAbnormality(petId, rate.halves \div 2,
                                                    pets[petId].species)
                   THEN "warning" ELSE Null]

\* the mutant of RatesOfPet: findMany without a where clause
RatesOfAnyPet(petId, startDate, endDate) ==
  {breathingRates[i] : i \in DOMAIN breathingRates}

\* the rows matching whereClause: { petId, timestamp: { gte, lte } }; an
\* optional date is a list, empty when the parameter is absent
RatesOfPet(petId, startDate, endDate) ==
  {r \in {breathingRates[i] : i \in DOMAIN breathingRates} :
     /\ r.petId = petId
     /\ startDate = <<>> \/ r.timestamp >= startDate[1]
     /\ endDate = <<>> \/ r.timestamp <= endDate[1]}

\* GET /api/breathing; limit is "absent" or "given": a limit in the query
\* string is a string, which z.number() rejects
GetBreathingRates(user, petId, startDate, endDate, limit) ==
  /\ UNCHANGED <<breathingRates, now>>
  /\ IF user.type # "user" THEN
       resp' = BreathingResp("history", user, 403, petId)
     ELSE IF limit # "absent" THEN
       resp' = BreathingResp("history", user, 400, petId)
     ELSE IF ~FindPet(petId, user.id) THEN
       resp' = BreathingResp("history", user, 404, petId)
     ELSE \E sorted \in FindManyDesc(RatesOfPet(petId, startDate, endDate)) :
       resp' = [BreathingResp("history", user, 200, petId) EXCEPT
                  !.breathingRates = Slice(sorted, 0, DefaultLimit),
                  !.stats = CalculateBreathingRateStats(sorted)]

\* GET /api/breathing/:petId/analytics
GetAnalytics(user, petId) ==
  /\ UNCHANGED <<breathingRates, now>>
  /\ IF user.type # "user" THEN
       resp' = BreathingResp("analytics", user, 403, petId)
     ELSE IF ~FindPet(petId, user.id) THEN
       resp' = BreathingResp("analytics", user, 404, petId)
     ELSE \E sorted \in FindManyDesc(RatesOfPet(petId, <<>>, <<>>)) :
       resp' = [BreathingResp("analytics", user, 200, petId) EXCEPT
                  !.analytics = Analytics(Slice(sorted, 0, Take),
                                          pets[petId].species)]

InitBreathing ==
  /\ users = SeedPopulation.users
  /\ vets = SeedPopulation.vets
  /\ messages = <<>>
  /\ now = 0
  /\ pets \in PetTables
  /\ breathingRates = <<>>
  /\ resp = Unanswered
  /\ arg = Null
  /\ ret = NoCall
  /\ AppsIdle

\* the clock has advanced since the previous insert
Record ==
  \E user \in AuthRequesters, petId \in PetIds \cup {UnknownId},
     rate \in RawRates :
    /\ RecordBreathingRate(user, petId, rate, Null, now + 1)
    /\ UNCHANGED <<users, vets, messages, pets, arg, ret, appVars>>

History ==
  \E user \in AuthRequesters, petId \in PetIds \cup {UnknownId},
     startDate \in {<<>>, <<2>>}, endDate \in {<<>>, <<1>>},
     limit \in {"absent", "given"} :
    /\ GetBreathingRates(user, petId, startDate, endDate, limit)
    /\ UNCHANGED <<users, vets, messages, pets, arg, ret, appVars>>

Analyse ==
  \E user \in AuthRequesters, petId \in PetIds \cup {UnknownId} :
    /\ GetAnalytics(user, petId)
    /\ UNCHANGED <<users, vets, messages, pets, arg, ret, appVars>>

NextBreathing == Record \/ History \/ Analyse

SpecBreathing == InitBreathing /\ [][NextBreathing]_vars

(* ---- claims about the breathing routes ------------------------------- *)
\* the rate sent is a number and a positive integer
PositiveInteger(rate) ==
  rate.kind = "number" /\ \E n \in 1..MaxRate : rate.halves = 2 * n

\* the request answered by the step is a POST by the owner of the pet it
\* names, with a positive integer rate
OwnerRecords(r) ==
  /\ r.op = "record"
  /\ r.user.type = "user"
  /\ PositiveInteger(r.rate)
  /\ FindPet(r.petId, r.user.id)

\* the step leaves the BreathingRate table as it was
RowsUnchanged == breathingRates' = breathingRates

\* the step appends one row, for the pet and the rate of the request
OneRowAdded(r) ==
  /\ Len(breathingRates') = Len(breathingRates) + 1
  /\ SubSeq(breathingRates', 1, Len(breathingRates)) = breathingRates
  /\ breathingRates'[Len(breathingRates')].petId = r.petId
  /\ 2 * breathingRates'[Len(breathingRates')].rate = r.rate.halves

\* C17: every valid POST /api/breathing by the pet's owner persists exactly
\* one new BreathingRate row and answers 201, whether or not the rate is
\* abnormal, and the alert of the response is non-null exactly when the rate
\* is outside the normal range of the pet's species
C17_AbnormalRateStillWritten ==
  [][OwnerRecords(resp') =>
       /\ resp'.status = 201
       /\ OneRowAdded(resp')
       /\ (resp'.alert # Null) <=>
            LET range == StatedRange(pets[resp'.petId].species)
                rate == resp'.rate.halves \div 2
            IN rate < range.min \/ rate > range.max]_vars

\* C18: a BreathingRate row is created only by a requester of kind user who
\* owns the pet and sends a positive integer rate.  A veterinarian gets 403;
\* a user who sends a rate that is not a positive integer gets 400; a user
\* who sends a valid rate for a pet that does not exist or belongs to
\* another user gets 404; in each of these cases the rows are unchanged
C18_OnlyOwnerCreatesRows ==
  [][/\ (~RowsUnchanged) => OwnerRecords(resp')
     /\ (resp'.op = "record" /\ resp'.user.type # "user") =>
          (resp'.status = 403 /\ RowsUnchanged)
     /\ (resp'.op = "record" /\ resp'.user.type = "user"
           /\ ~PositiveInteger(resp'.rate)) =>
          (resp'.status = 400 /\ RowsUnchanged)
     /\ (resp'.op = "record" /\ resp'.user.type = "user"
           /\ PositiveInteger(resp'.rate)
           /\ ~FindPet(resp'.petId, resp'.user.id)) =>
          (resp'.status = 404 /\ RowsUnchanged)]_vars

\* C18 witness: with a measurement stored, a user who sends a positive
\* integer rate for a pet of another user has been answered 404
C18_Witness ==
  /\ resp.op = "record"
  /\ resp.status = 404
  /\ resp.user.type = "user"
  /\ resp.petId \in DOMAIN pets
  /\ PositiveInteger(resp.rate)
  /\ breathingRates # <<>>

\* the pet the answered request names has no stored measurement
NoMeasurements ==
  \A i \in DOMAIN breathingRates : breathingRates[i].petId # resp.petId

\* C19: for a pet with no measurements the statistics are count 0, average
\* 0, min 0, max 0, and the analytics have totalMeasurements 0, averageRate
\* 0, minRate 0, maxRate 0, trend "stable" and no lastMeasurement
C19_NoMeasurementsAllZero ==
  /\ (resp.op = "history" /\ resp.status = 200 /\ NoMeasurements) =>
       resp.stats = [count |-> 0, average |-> 0, min |-> 0, max |-> 0]
  /\ (resp.op = "analytics" /\ resp.status = 200 /\ NoMeasurements) =>
       /\ resp.analytics.totalMeasurements = 0
       /\ resp.analytics.averageRate = 0
       /\ resp.analytics.minRate = 0
       /\ resp.analytics.maxRate = 0
       /\ resp.analytics.trend = "stable"
       /\ resp.analytics.lastMeasurement = <<>>

\* C19 witness: the analytics of a pet without measurements are served
\* while another pet has a measurement stored
C19_Witness ==
  /\ resp.op = "analytics"
  /\ resp.status = 200
  /\ NoMeasurements
  /\ breathingRates # <<>>

(* ============================ QR code payload ========================== *)
\* JavaScript values, tagged: undefined, null, true, a number or a string
\* (v is its text), an array (items is the list of its elements), an object
\* (items is the list of its property values in insertion order, each under
\* its key)
Value(t, text, items) == [key |-> "", t |-> t, v |-> text, items |-> items]
JsUndefined == Value("undefined", "", <<>>)
JsNull == Value("null", "", <<>>)
Str(text) == Value("string", text, <<>>)
Obj(properties) == Value("object", "", properties)
Prop(key, val) == [val EXCEPT !.key = key]

\* a JSON text is kept as its sequence of tokens
Tok(k, text) == [k |-> k, v |-> text]

\* JSON.stringify: a property whose value is undefined is left out, an
\* element that is undefined is written as null
RECURSIVE Stringify(_)
RECURSIVE StringifyList(_, _)
\* items are the properties or elements still to write, first tells
\* whether no comma has to precede the next one written
StringifyList(items, first) ==
  IF items = <<>> THEN <<>>
  ELSE LET item == Head(items)
           isProp == item.key # ""
       IN IF isProp /\ item.t = "undefined"
          THEN StringifyList(Tail(items), first)
          ELSE (IF first THEN <<>> ELSE <<Tok(",", "")>>)
                 \o (IF isProp THEN <<Tok("string", item.key), Tok(":", "")>>
                     ELSE <<>>)
                 \o (IF item.t = "undefined" THEN <<Tok("null", "")>>
                     ELSE Stringify(item))
                 \o StringifyList(Tail(items), FALSE)

Stringify(val) ==
  IF val.t = "object"
  THEN <<Tok("{", "")>> \o StringifyList(val.items, TRUE) \o <<Tok("}", "")>>
  ELSE IF val.t = "array"
  THEN <<Tok("[", "")>> \o StringifyList(val.items, TRUE) \o <<Tok("]", "")>>
  ELSE <<Tok(val.t, val.v)>>

\* obj[key] = val while JSON.parse builds an object: a repeated key keeps
\* its place and takes the later value
SetProperty(properties, key, val) ==
  IF \E i \in DOMAIN properties : properties[i].key = key
  THEN [i \in DOMAIN properties |->
          IF properties[i].key = key THEN Prop(key, val) ELSE properties[i]]
  ELSE Append(properties, Prop(key, val))

\* the outcome of parsing a prefix of the tokens: the value read and the
\* tokens that follow it, or ok = FALSE for a SyntaxError
SyntaxError == [ok |-> FALSE, value |-> JsUndefined, rest |-> <<>>]
Parsed(val, rest) == [ok |-> TRUE, value |-> val, rest |-> rest]

RECURSIVE ParseValue(_)
RECURSIVE ParseMembers(_, _)
RECURSIVE ParseElements(_, _)

\* after "{" or ",": a string key, ":", a value, then "," or "}"
ParseMembers(ts, properties) ==
  IF Len(ts) < 2 \/ ts[1].k # "string" \/ ts[2].k # ":" THEN SyntaxError
  ELSE LET member == ParseValue(SubSeq(ts, 3, Len(ts)))
           now_ == SetProperty(properties, ts[1].v, member.value)
       IN IF ~member.ok \/ member.rest = <<>> THEN SyntaxError
          ELSE IF Head(member.rest).k = "}"
          THEN Parsed(Obj(now_), Tail(member.rest))
          ELSE IF Head(member.rest).k = ","
          THEN ParseMembers(Tail(member.rest), now_)
          ELSE SyntaxError

\* after "[" or ",": a value, then "," or "]"
ParseElements(ts, elements) ==
  LET element == ParseValue(ts)
  IN IF ~element.ok \/ element.rest = <<>> THEN SyntaxError
     ELSE IF Head(element.rest).k = "]"
     THEN Parsed(Value("array", "", Append(elements, element.value)),
                 Tail(element.rest))
     ELSE IF Head(element.rest).k = ","
     THEN ParseElements(Tail(element.rest), Append(elements, element.value))
     ELSE SyntaxError

ParseValue(ts) ==
  IF ts = <<>> THEN SyntaxError
  ELSE IF Head(ts).k \in {"null", "true", "number", "string"}
  THEN Parsed(Value(Head(ts).k, Head(ts).v, <<>>), Tail(ts))
  ELSE IF Head(ts).k = "{"
  THEN IF Len(ts) >= 2 /\ ts[2].k = "}"
       THEN Parsed(Obj(<<>>), SubSeq(ts, 3, Len(ts)))
       ELSE ParseMembers(Tail(ts), <<>>)
  ELSE IF Head(ts).k = "["
  THEN IF Len(ts) >= 2 /\ ts[2].k = "]"
       THEN Parsed(Value("array", "", <<>>), SubSeq(ts, 3, Len(ts)))
       ELSE ParseElements(Tail(ts), <<>>)
  ELSE SyntaxError

\* JSON.parse: one value and nothing after it
JsonParse(ts) ==
  LET r == ParseValue(ts)
  IN IF r.ok /\ r.rest = <<>> THEN r ELSE SyntaxError

\* val[key] for a value that is neither null nor undefined: the property
\* of an object, undefined on a primitive or an array for the keys read here
ReadProperty(val, key) ==
  IF val.t = "object" /\ \E i \in DOMAIN val.items : val.items[i].key = key
  THEN Prop("", val.items[CHOOSE i \in DOMAIN val.items :
                            val.items[i].key = key])
  ELSE JsUndefined

ScheduleType == "VETCO_MEDICATION_SCHEDULE"

\* the mutant of TypeMatches: any string is accepted as type
TypeIsString(type) == type.t = "string"

\* parsed.type === 'VETCO_MEDICATION_SCHEDULE'
TypeMatches(type) == type = Str(ScheduleType)

\* qrData of generateMedicationQR
QrData(scheduleData) ==
  Obj(<<Prop("type", Str(ScheduleType)), Prop("version", Str("1.0")),
        Prop("data", scheduleData)>>)

\* the text generateMedicationQR hands to QRCode.toDataURL
GenerateMedicationQR(scheduleData) == Stringify(QrData(scheduleData))

\* parseQRCode: threw tells whether the call ends in an exception.  A
\* SyntaxError of JSON.parse, the TypeError of reading .type of null and the
\* Error thrown for another type are all caught, and null is returned
ParseQRCode(qrCodeData) ==
  LET parsed == JsonParse(qrCodeData)
  IN IF ~parsed.ok THEN [threw |-> FALSE, value |-> JsNull]
     ELSE IF parsed.value.t = "null" THEN [threw |-> FALSE, value |-> JsNull]
     ELSE IF ~TypeMatches(ReadProperty(parsed.value, "type"))
     THEN [threw |-> FALSE, value |-> JsNull]
     ELSE [threw |-> FALSE, value |-> ReadProperty(parsed.value, "data")]

(* ---- the QR functions applied to schedules and to scanned texts ------ *)
\* the schedule data medications.ts builds: strings, endDate undefined for
\* a schedule without end
Schedule(medication, instructions, endDate) ==
  Obj(<<Prop("scheduleId", Str("s1")), Prop("medication", medication),
        Prop("petName", Str("Buddy")), Prop("veterinarian", Str("Dr. A B")),
        Prop("clinic", Str("Clinic")), Prop("instructions", instructions),
        Prop("frequency", Str("daily")), Prop("dosage", Str("5mg")),
        Prop("startDate", Str("2025-01-01T00:00:00.000Z")),
        Prop("endDate", endDate)>>)

Schedules ==
  {Schedule(medication, instructions, endDate) :
     medication \in {Str("Amoxicillin"), Str(ScheduleType)},
     instructions \in {Str("with food"), Str("")},
     endDate \in {JsUndefined, Str("2025-01-31T00:00:00.000Z")}}

\* JSON documents a scanned code may hold; a repeated key stands for a text
\* that names the key twice
Documents ==
  LET data == Obj(<<Prop("medication", Str("Amoxicillin"))>>)
      type == Prop("type", Str(ScheduleType))
      other == Prop("type", Str("OTHER"))
      five == Value("number", "5", <<>>)
      list == Value("array", "", <<Str(ScheduleType)>>)
  IN {JsNull, Value("true", "", <<>>), five, Str(ScheduleType),
      Value("array", "", <<>>), list, Obj(<<>>),
      Obj(<<Prop("data", data)>>),
      Obj(<<other, Prop("data", data)>>),
      Obj(<<Prop("type", Str("vetco_medication_schedule")),
            Prop("data", data)>>),
      Obj(<<Prop("type", JsNull), Prop("data", data)>>),
      Obj(<<Prop("type", list), Prop("data", data)>>),
      Obj(<<Prop("type", Obj(<<type>>)), Prop("data", data)>>),
      Obj(<<type>>),
      Obj(<<type, Prop("data", five)>>),
      Obj(<<type, Prop("data", JsNull)>>),
      Obj(<<Prop("data", data), type>>),
      Obj(<<other, type, Prop("data", data)>>),
      Obj(<<type, other, Prop("data", data)>>)}
    \cup {QrData(schedule) : schedule \in Schedules}

\* the scanned texts: every document written out, every text cut short and
\* every text followed by one more token
ScannedTexts ==
  LET texts == {Stringify(d) : d \in Documents}
  IN texts
     \cup UNION {{SubSeq(text, 1, n) : n \in 0..Len(text)} : text \in texts}
     \cup {text \o <<tok>> : text \in texts,
                             tok \in {Tok("}", ""), Tok("null", "")}}

InitQr ==
  /\ RoutesIdle
  /\ arg \in {[kind |-> "text", text |-> text, data |-> JsUndefined] :
                text \in ScannedTexts}
         \cup {[kind |-> "schedule", text |-> <<>>, data |-> schedule] :
                schedule \in Schedules}
  /\ ret = NoCall

ApplyParseQRCode ==
  arg.kind = "text" /\ Return("parseQRCode", ParseQRCode(arg.text))

ApplyRoundTrip ==
  /\ arg.kind = "schedule"
  /\ Return("roundTrip", ParseQRCode(GenerateMedicationQR(arg.data)))

NextQr == ApplyParseQRCode \/ ApplyRoundTrip

SpecQr == InitQr /\ [][NextQr]_vars

(* ---- claims about the QR payload ------------------------------------- *)
\* the value a JSON document gives the key: that of its last property of
\* that key, undefined when it is not an object or has no such property
LastProperty(doc, key) ==
  LET at == {i \in DOMAIN doc.items : doc.items[i].key = key}
  IN IF doc.t # "object" \/ at = {} THEN JsUndefined
     ELSE Prop("", doc.items[CHOOSE i \in at : \A j \in at : j <= i])

\* the value as JSON carries it: without the properties that are undefined
Written(val) ==
  [val EXCEPT !.items = SelectSeq(val.items, LAMBDA p : p.t # "undefined")]

\* the JSON documents whose text is the scanned text
DocumentsScanned == {d \in Documents : Stringify(d) = arg.text}

ScheduleKeys ==
  {"scheduleId", "medication", "petName", "veterinarian", "clinic",
   "instructions", "frequency", "dosage", "startDate", "endDate"}

\* C20: parseQRCode never throws; it returns the data field of the payload
\* when the input is JSON whose type is exactly "VETCO_MEDICATION_SCHEDULE"
\* and null for every other input (invalid JSON, JSON null or a non-object,
\* a missing or different type); parsing the payload generateMedicationQR
\* builds for a schedule returns that schedule's data
C20_ParseQRCodeTypedOnly ==
  /\ ret.fn = "parseQRCode" =>
       /\ ~ret.value.threw
       /\ IF \E d \in DocumentsScanned :
               LastProperty(d, "type") = Str("VETCO_MEDICATION_SCHEDULE")
          THEN \E d \in DocumentsScanned :
                 ret.value.value = Written(LastProperty(d, "data"))
          ELSE ret.value.value = JsNull
  /\ ret.fn = "roundTrip" =>
       /\ ~ret.value.threw
       /\ ret.value.value = Written(arg.data)
       /\ \A key \in ScheduleKeys :
            LastProperty(ret.value.value, key) = LastProperty(arg.data, key)

\* C20 witness: the payload of a schedule without end date, whose medication
\* is named like the payload type, has been generated and parsed back
C20_Witness ==
  /\ ret.fn = "roundTrip"
  /\ LastProperty(arg.data, "endDate") = JsUndefined
  /\ LastProperty(arg.data, "medication") = Str("VETCO_MEDICATION_SCHEDULE")
  /\ ret.value.value.t = "object"

(* ================= medication reminders and notifications ============= *)
MaxReminders == 2
MaxTimes == 2
MaxClock == 2

\* the MedicationSchedule table: s1 is a schedule of pet p1
MedicationSchedules == [s1 |-> [petId |-> "p1"]]

\* how the notification path fails during a request: not at all, the
\* dynamic import rejects, pushToken.findMany rejects, cron.schedule throws
Faults == {"none", "import", "findMany", "cron"}

\* the columns the Reminder table fills in by default on create
ReminderDefaults == [isActive |-> TRUE]

ScheduleNotificationNoCatch(userId, reminder, fault, t) ==
  [threw |-> fault \in {"findMany", "cron"}, tasks |-> {}]

\* scheduleNotification at clock reading t: the tasks it registers with
\* node-cron, and whether it ends in an exception.  The whole body is in a
\* try block whose catch only logs
ScheduleNotification(userId, reminder, fault, t) ==
  [threw |-> FALSE,
   tasks |->
     IF fault = "findMany" \/ userId \notin pushTokens THEN {}
     ELSE IF reminder.time <= t THEN {}
     ELSE IF fault = "cron" THEN {}
     ELSE {[reminderId |-> reminder.id, time |-> reminder.time,
            tokens |-> {userId}]}]

\* the calls the route makes for the reminders it created: none when the
\* import of the service rejects
NotificationCalls(userId, created, fault, t) ==
  IF fault = "import" THEN {}
  ELSE {ScheduleNotification(userId, created[i], fault, t) :
          i \in DOMAIN created}

ReminderResp(op, user, status, scheduleId) ==
  [op |-> op, user |-> user, status |-> status, scheduleId |-> scheduleId,
   times |-> <<>>, fault |-> "none", reminders |-> <<>>]

\* medicationSchedule.findFirst({ id: scheduleId, pet: { ownerId } })
FindSchedule(scheduleId, ownerId) ==
  /\ scheduleId \in DOMAIN MedicationSchedules
  /\ pets[MedicationSchedules[scheduleId].petId].ownerId = ownerId

\* POST /api/medications/:scheduleId/reminders; body.kind is "ok" when
\* req.body.times is an array of date strings
SetReminders(user, scheduleId, body, fault) ==
  IF user.type # "user" THEN
    /\ resp' = ReminderResp("reminders", user, 403, scheduleId)
    /\ UNCHANGED <<reminders, cronTasks, ret>>
  ELSE IF body.kind # "ok" THEN
    /\ resp' = ReminderResp("reminders", user, 400, scheduleId)
    /\ UNCHANGED <<reminders, cronTasks, ret>>
  ELSE IF ~FindSchedule(scheduleId, user.id) THEN
    /\ resp' = ReminderResp("reminders", user, 404, scheduleId)
    /\ UNCHANGED <<reminders, cronTasks, ret>>
  ELSE
    LET created ==
          [i \in DOMAIN body.times |->
             [id |-> Len(reminders) + i, scheduleId |-> scheduleId,
              time |-> body.times[i], isActive |-> ReminderDefaults.isActive]]
        calls == NotificationCalls(user.id, created, fault, now)
    IN /\ Len(reminders) + Len(body.times) <= MaxReminders
       /\ reminders' = reminders \o created
       /\ cronTasks' = cronTasks \cup UNION {call.tasks : call \in calls}
       /\ ret' = IF calls = {} THEN NoCall
                 ELSE [fn |-> "scheduleNotification",
                       value |-> \E call \in calls : call.threw]
       /\ resp' = [ReminderResp("reminders", user, 201, scheduleId) EXCEPT
                     !.times = body.times, !.fault = fault,
                     !.reminders = created]

\* registerPushToken(userId, token, platform)
RegisterPushToken(userId) == pushTokens' = pushTokens \cup {userId}

\* cancelNotification(reminderId): an update of a row that does not exist
\* rejects, which is caught and logged
CancelNotification(reminderId) ==
  /\ reminders' =
       [i \in DOMAIN reminders |->
          IF i = reminderId THEN [reminders[i] EXCEPT !.isActive = FALSE]
          ELSE reminders[i]]
  /\ ret' = [fn |-> "cancelNotification", value |-> reminderId]

\* the owner of the pet a reminder's schedule belongs to
ReminderOwner(reminder) ==
  pets[MedicationSchedules[reminder.scheduleId].petId].ownerId

\* the start of a minute: the cron tasks registered for this minute call
\* sendPushNotification, and the task of startReminderScheduler handles the
\* active reminders whose time lies in the last minute
CronMinute ==
  LET t == now + 1
      due == {task \in cronTasks : task.time = t}
      pending == {i \in DOMAIN reminders :
                    /\ reminders[i].isActive
                    /\ reminders[i].time >= t - 1
                    /\ reminders[i].time <= t}
  IN /\ now < MaxClock
     /\ now' = t
     /\ pushes' = pushes \cup
          {[reminderId |-> task.reminderId, at |-> t] :
             task \in {d \in due : d.tokens # {} /\ firebaseInitialized}}
     /\ cronTasks' = cronTasks \cup UNION
          {ScheduleNotification(ReminderOwner(reminders[i]), reminders[i],
                                "none", t).tasks : i \in pending}
     /\ reminders' =
          [i \in DOMAIN reminders |->
             IF i \in pending THEN [reminders[i] EXCEPT !.isActive = FALSE]
             ELSE reminders[i]]

InitReminders ==
  /\ users = SeedPopulation.users
  /\ vets = SeedPopulation.vets
  /\ messages = <<>>
  /\ now = 0
  /\ pets \in {table \in PetTables : table["p1"].species = SeedSpecies}
  /\ breathingRates = <<>>
  /\ resp = ReminderResp("none", [id |-> Null, type |-> Null], 0, Null)
  /\ arg = Null
  /\ ret = NoCall
  /\ reminders = <<>>
  /\ pushTokens = {}
  /\ cronTasks = {}
  /\ pushes = {}
  /\ firebaseInitialized \in BOOLEAN
  /\ PageIdle /\ RecorderIdle /\ AuthIdle

\* what no operation of the notification service changes
ReminderFrame ==
  UNCHANGED <<users, vets, messages, pets, breathingRates, arg,
              firebaseInitialized, pageVars, recorderVars, authVars>>

\* a client posts reminder times, at or after the current minute
Remind ==
  \E user \in AuthRequesters, scheduleId \in {"s1", UnknownId},
     fault \in Faults,
     body \in {[kind |-> "invalid", times |-> <<>>]} \cup
              {[kind |-> "ok", times |-> times] :
                 times \in UNION {[1..n -> now..MaxClock] : n \in 1..MaxTimes}} :
    /\ SetReminders(user, scheduleId, body, fault)
    /\ ReminderFrame
    /\ UNCHANGED <<now, pushTokens, pushes>>

Register ==
  \E userId \in users :
    /\ RegisterPushToken(userId)
    /\ ReminderFrame
    /\ UNCHANGED <<now, resp, ret, reminders, cronTasks, pushes>>

Cancel ==
  \E reminderId \in DOMAIN reminders :
    /\ CancelNotification(reminderId)
    /\ ReminderFrame
    /\ UNCHANGED <<now, resp, pushTokens, cronTasks, pushes>>

Minute ==
  /\ CronMinute
  /\ ReminderFrame
  /\ UNCHANGED <<resp, ret, pushTokens>>

NextReminders == Remind \/ Register \/ Cancel \/ Minute

SpecReminders == InitReminders /\ [][NextReminders]_vars

(* ---- claims about reminders and notifications ------------------------ *)
\* C21: a POST /api/medications/:scheduleId/reminders by the owner of the
\* schedule's pet creates one reminder per requested time and answers 201,
\* also when the import of the notification service, the token query or
\* cron.schedule fails, and no call of scheduleNotification ends in an
\* exception
C21_NotificationFailuresSwallowed ==
  [][(resp'.op = "reminders" /\ resp'.user.type = "user"
        /\ resp'.status \notin {400, 403}
        /\ resp'.scheduleId \in DOMAIN MedicationSchedules
        /\ ReminderOwner([scheduleId |-> resp'.scheduleId]) = resp'.user.id
        /\ resp' # resp) =>
       /\ resp'.status = 201
       /\ Len(reminders') = Len(reminders) + Len(resp'.times)
       /\ SubSeq(reminders', 1, Len(reminders)) = reminders
       /\ \A i \in DOMAIN resp'.times :
            /\ reminders'[Len(reminders) + i].time = resp'.times[i]
            /\ reminders'[Len(reminders) + i].scheduleId = resp'.scheduleId
            /\ resp'.reminders[i] = reminders'[Len(reminders) + i]
       /\ ret'.fn = "scheduleNotification" => ~ret'.value]_vars

\* C21 witness: the owner has a push token, cron.schedule threw for a
\* reminder in the future, and the request was answered 201 with two
\* reminders
C21_Witness ==
  /\ resp.op = "reminders"
  /\ resp.status = 201
  /\ resp.fault = "cron"
  /\ resp.user.id \in pushTokens
  /\ Len(resp.reminders) = 2
  /\ \E i \in DOMAIN resp.reminders : resp.reminders[i].time > now
  /\ ret.fn = "scheduleNotification"

\* C27: every active reminder whose time lies in the one-minute window of a
\* tick of startReminderScheduler, whose owner has a push token while
\* Firebase is initialised, has a push sent for it and is inactive after
\* the tick
C27_TickSendsPush ==
  [][now' = now + 1 =>
       \A i \in DOMAIN reminders :
         (/\ reminders[i].isActive
          /\ reminders[i].time >= now' - 1
          /\ reminders[i].time <= now'
          /\ ReminderOwner(reminders[i]) \in pushTokens
          /\ firebaseInitialized) =>
           /\ \E push \in pushes' : push.reminderId = i
           /\ ~reminders'[i].isActive]_vars

\* C28: once cancelNotification(reminderId) has completed, no push is sent
\* for that reminder
C28_NoPushAfterCancel ==
  [][(ret.fn = "cancelNotification" /\ ret' = ret) =>
       \A push \in pushes' \ pushes : push.reminderId # ret.value]_vars

(* ------------------- web: the messages page (client) ------------------ *)
\* the logged-in pet owner the page is rendered for
Viewer == [id |-> "u1", type |-> "user"]

\* an entry of response.data.conversations as the list holds it; lastMessage
\* is <<m>> for a message m and <<>> for the object without properties
ListedConversation(conv) ==
  [partner |-> conv.partner, lastMessage |-> <<conv.lastMessage>>,
   unreadCount |-> conv.unreadCount]

\* newConv of startNewConversation
NewConv(vetId) ==
  [partner |-> [id |-> vetId, type |-> "veterinarian"],
   lastMessage |-> <<>>, unreadCount |-> 0]

\* the mutant of StartNewConversation: no find() before the list grows
StartNewConversationNoFind(vetId) ==
  /\ selectedConversation' = vetId
  /\ conversations' = <<NewConv(vetId)>> \o conversations
  /\ ret' = [fn |-> "startNewConversation", value |-> vetId]

\* startNewConversation(vetId), called from a button of the veterinarian
\* search
StartNewConversation(vetId) ==
  /\ selectedConversation' = vetId
  /\ conversations' =
       IF vetId \in veterinarians /\ ~MapHas(conversations, vetId)
       THEN <<NewConv(vetId)>> \o conversations
       ELSE conversations
  /\ ret' = [fn |-> "startNewConversation", value |-> vetId]

\* the page is shown once the fetchConversations of the mount effect has
\* settled (loading)
PageShown == "mount" \notin inflight

\* the response of a pending fetchConversations arrives
FetchConversations ==
  \E request \in inflight \cap {"mount", "refresh"} :
    /\ GetConversations(Viewer)
    /\ conversations' =
         [i \in DOMAIN resp'.conversations |->
            ListedConversation(resp'.conversations[i])]
    /\ inflight' = inflight \ {request}
    /\ ret' = [fn |-> "fetchConversations", value |-> request]
    /\ UNCHANGED <<selectedConversation, veterinarians>>

\* the response of fetchVeterinarians arrives: a list of veterinarians, or
\* an error, which is logged
FetchVeterinarians ==
  /\ "veterinarians" \in inflight
  /\ inflight' = inflight \ {"veterinarians"}
  /\ \E listed \in SUBSET vets : veterinarians' \in {listed, veterinarians}
  /\ ret' = [fn |-> "fetchVeterinarians", value |-> Null]
  /\ UNCHANGED <<users, vets, messages, now, resp,
                 conversations, selectedConversation>>

\* the form is submitted with a non-empty text while no send is pending
PageSendMessage ==
  /\ PageShown
  /\ "refresh" \notin inflight
  /\ selectedConversation # Null
  /\ ret' = [fn |-> "sendMessage", value |-> selectedConversation]
  /\ UNCHANGED <<conversations, selectedConversation, veterinarians>>
  /\ IF ~MapHas(conversations, selectedConversation)
     THEN UNCHANGED <<users, vets, messages, now, resp, inflight>>
     ELSE LET selectedConv ==
                CHOOSE c \in {conversations[i] : i \in DOMAIN conversations} :
                  c.partner.id = selectedConversation
          IN /\ SendMessage(Viewer, selectedConversation, "hi",
                            selectedConv.partner.type, now + 1)
             /\ inflight' = IF resp'.status = 201
                            THEN inflight \cup {"refresh"} ELSE inflight

\* a veterinarian of the search list is clicked
PageStart ==
  \E vetId \in veterinarians :
    /\ PageShown
    /\ StartNewConversation(vetId)
    /\ UNCHANGED <<users, vets, messages, now, resp, veterinarians, inflight>>

\* an entry of the conversation list is clicked
PageSelect ==
  \E i \in DOMAIN conversations :
    /\ PageShown
    /\ selectedConversation' = conversations[i].partner.id
    /\ ret' = [fn |-> "setSelectedConversation",
               value |-> conversations[i].partner.id]
    /\ UNCHANGED <<users, vets, messages, now, resp,
                   conversations, veterinarians, inflight>>

\* the page after its mount effect, in a database with one pet owner and two
\* veterinarians
InitPage ==
  /\ users = {"u1"}
  /\ vets = {"v1", "v2"}
  /\ messages = <<>>
  /\ now = 0
  /\ resp = BaseResp("none", [id |-> Null, type |-> Null], 0)
  /\ pets = <<>>
  /\ breathingRates = <<>>
  /\ arg = Null
  /\ ret = NoCall
  /\ ReminderIdle /\ RecorderIdle /\ AuthIdle
  /\ conversations = <<>>
  /\ selectedConversation = Null
  /\ veterinarians = {}
  /\ inflight = {"mount", "veterinarians"}

PageFrame ==
  UNCHANGED <<pets, breathingRates, arg, reminderVars, recorderVars, authVars>>

NextPage ==
  \/ SendDelivered
  \/ (FetchConversations /\ PageFrame)
  \/ (FetchVeterinarians /\ PageFrame)
  \/ (PageSendMessage /\ PageFrame)
  \/ (PageStart /\ PageFrame)
  \/ (PageSelect /\ PageFrame)

SpecPage == InitPage /\ [][NextPage]_vars

C26_SelectedIsListed ==
  selectedConversation # Null =>
    \E i \in DOMAIN conversations :
      conversations[i].partner.id = selectedConversation

(* ---------------- GET /api/messages with limit and offset ------------- *)
MaxPageLimit == 2
MaxPageOffset == 1

\* the handler runs with a parsed limit and offset, kept in arg
FetchPage ==
  \E user \in AuthRequesters, partner \in AuthRequesters,
     limit \in 1..MaxPageLimit, offset \in 0..MaxPageOffset :
    /\ GetMessages(user, partner.id, partner.type, limit, offset)
    /\ arg' = [limit |-> limit, offset |-> offset]
    /\ UNCHANGED <<pets, breathingRates, ret, appVars>>

NextPaging == SendDelivered \/ FetchPage

SpecPaging == Init /\ [][NextPaging]_vars

\* the ids of the stored messages exchanged between the requester and the
\* requested partner
ConversationIds ==
  {m.id : m \in {x \in Rows : Exchanged(x, resp.user, RequestedPartner)}}

\* the stored messages of the conversation that are newer than message id
NewerThan(id) ==
  {x \in Rows : x.id \in ConversationIds /\ x.timestamp > messages[id].timestamp}

\* C23: GET /api/messages returns only messages exchanged between the
\* requester and conversationWith of kind conversationType, namely the
\* limit newest ones that remain after the offset newest are skipped, in
\* ascending order of timestamp
C23_PageOfConversation ==
  FetchServed =>
    LET returned == resp.messages
        ids == {returned[i].id : i \in DOMAIN returned}
        left == Cardinality(ConversationIds) - arg.offset
    IN /\ ids \subseteq ConversationIds
       /\ Cardinality(ids) = Len(returned)
       /\ Len(returned) = IF left < 0 THEN 0 ELSE Min(arg.limit, left)
       /\ \A i, j \in DOMAIN returned :
            i < j => returned[i].timestamp <= returned[j].timestamp
       /\ \A id \in ConversationIds :
            id \in ids <=>
              /\ Cardinality(NewerThan(id)) >= arg.offset
              /\ Cardinality(NewerThan(id)) < arg.offset + arg.limit

\* C23 witness: of a conversation of two messages the older one alone was returned after the newest
\* was skipped
C23_Witness ==
  /\ FetchServed
  /\ arg.offset = 1
  /\ Cardinality(ConversationIds) = 2
  /\ Len(resp.messages) = 1
  /\ NewerThan(resp.messages[1].id) # {}

(* ------------------ validation of the query string -------------------- *)
\* a value of req.query or of an axios params object: a number, a string
\* that spells the number n, or undefined
Param(t, n) == [t |-> t, n |-> n]

\* axios writes params into the URL and express reads req.query from it:
\* every value that is present arrives as a string
QueryOf(params) ==
  [k \in DOMAIN params |->
     IF params[k].t = "undefined" THEN params[k]
     ELSE Param("string", params[k].n)]

\* z.number().int().default(default) on a value: the number, or the default
\* for undefined; a string is not a number (every number here is an integer)
ZNumber(value, default) ==
  IF value.t = "undefined" THEN [ok |-> TRUE, n |-> default]
  ELSE [ok |-> value.t = "number", n |-> value.n]

\* GET /api/messages: getMessagesSchema.parse(req.query), then the handler
GetMessagesOfQuery(user, conversationWith, conversationType, query) ==
  LET limit == ZNumber(query.limit, 50)
      offset == ZNumber(query.offset, 0)
  IN IF /\ conversationType \in RecipientTypes
        /\ limit.ok /\ limit.n > 0 /\ limit.n <= 100
        /\ offset.ok /\ offset.n >= 0
     THEN GetMessages(user, conversationWith, conversationType,
                      limit.n, offset.n)
     ELSE /\ resp' = BaseResp("get", user, 400)
          /\ UNCHANGED <<users, vets, messages, now>>

\* GET /api/veterinarians: searchVetsSchema.parse(req.query), then findMany
\* with take: limit; the answer lists veterinarians in the order of their
\* clinic and last name, which is any order here
SearchVets(user, query) ==
  LET limit == ZNumber(query.limit, 20)
  IN /\ IF limit.ok /\ limit.n > 0 /\ limit.n <= 50
        THEN \E found \in [1..Min(limit.n, Cardinality(vets)) -> vets] :
               /\ \A i, j \in DOMAIN found : found[i] = found[j] => i = j
               /\ resp' = [BaseResp("veterinarians", user, 200) EXCEPT
                             !.conversations = found]
        ELSE resp' = BaseResp("veterinarians", user, 400)
     /\ UNCHANGED <<users, vets, messages, now>>

\* fetchMessages of the web page: params conversationWith, conversationType
\* and limit: 50
WebFetchMessages ==
  \E user \in AuthRequesters, partner \in AuthRequesters :
    /\ GetMessagesOfQuery(user, partner.id, partner.type,
         QueryOf([limit |-> Param("number", 50),
                  offset |-> Param("undefined", 0)]))
    /\ arg' = "fetchMessages"
    /\ UNCHANGED <<pets, breathingRates, ret, appVars>>

\* fetchVeterinarians of the web page: params limit: 20
WebFetchVeterinarians ==
  \E user \in AuthRequesters :
    /\ SearchVets(user, QueryOf([limit |-> Param("number", 20)]))
    /\ arg' = "fetchVeterinarians"
    /\ UNCHANGED <<pets, breathingRates, ret, appVars>>

\* requests that name no limit
PlainFetch ==
  \E user \in AuthRequesters, partner \in AuthRequesters :
    /\ \/ GetMessagesOfQuery(user, partner.id, partner.type,
            QueryOf([limit |-> Param("undefined", 0),
                     offset |-> Param("undefined", 0)]))
       \/ SearchVets(user, QueryOf([limit |-> Param("undefined", 0)]))
    /\ arg' = "plain"
    /\ UNCHANGED <<pets, breathingRates, ret, appVars>>

NextQuery ==
  SendDelivered \/ WebFetchMessages \/ WebFetchVeterinarians \/ PlainFetch

SpecQuery == Init /\ [][NextQuery]_vars

\* C24: the requests the web client sends, GET /api/messages with limit=50
\* and GET /api/veterinarians with limit=20, pass validation and are
\* answered 200, the former with at most 50 messages
C24_WebRequestsPassValidation ==
  arg \in {"fetchMessages", "fetchVeterinarians"} =>
    /\ resp.status = 200
    /\ Len(resp.messages) <= 50

(* --------------------- POST /api/messages with its body --------------- *)
\* a client posts any body; the body is kept in arg
Post ==
  \E user \in AuthRequesters, recipientId \in AllIds \cup {UnknownId},
     content \in Contents, recipientType \in RecipientTypes :
    /\ SendMessage(user, recipientId, content, recipientType, now + 1)
    /\ arg' = [recipientId |-> recipientId, content |-> content,
               recipientType |-> recipientType]
    /\ UNCHANGED <<pets, breathingRates, ret, appVars>>

SpecPost == Init /\ [][Post]_vars

\* C25: POST /api/messages stores a message only when the recipient id is
\* in the table recipientType names; otherwise it answers 404, and a body
\* with an empty content is answered 400; in both cases the stored messages
\* are unchanged
C25_RecipientMustExist ==
  [][resp'.op = "send" =>
       LET body == arg'
           table == IF body.recipientType = "veterinarian"
                    THEN vets ELSE users
       IN IF body.content = "" THEN
            resp'.status = 400 /\ messages' = messages
          ELSE IF body.recipientId \notin table THEN
            resp'.status = 404 /\ messages' = messages
          ELSE /\ resp'.status = 201
               /\ Len(messages') = Len(messages) + 1
               /\ SubSeq(messages', 1, Len(messages)) = messages
               /\ RecipientOf(messages'[Len(messages')]) =
                    [id |-> body.recipientId, type |-> body.recipientType]
               /\ messages'[Len(messages')].content = body.content]_vars

\* C25 witness: with a message stored, a post to an id that is a pet owner
\* but was sent as recipientType veterinarian was answered 404
C25_Witness ==
  /\ resp.op = "send"
  /\ resp.status = 404
  /\ arg.recipientId \in users
  /\ arg.recipientType = "veterinarian"
  /\ arg.content # ""
  /\ Len(messages) = 1

(* ---------------- web: the breathing-rate recording page -------------- *)
MaxTaps == 3
RecordingSeconds == 15

\* finishRecording as the render that created it defined it: closure holds
\* the breathCount of that render; the rate is kept as the list of the one
\* number whose decimal text setBreathingRate receives
FinishRecording(closure) ==
  /\ isRecording' = FALSE
  /\ breathingRate' = <<closure.breathCount * 4>>

\* startRecording, offered while nothing is recorded and the countdown is
\* 0; the interval callback keeps the finishRecording of the current render;
\* arg counts the calls of handleBreathTap of this recording
StartRecording ==
  /\ ~isRecording /\ countdown = 0
  /\ isRecording' = TRUE
  /\ breathCount' = 0
  /\ countdown' = RecordingSeconds
  /\ timers' = timers \cup {[breathCount |-> breathCount]}
  /\ arg' = 0
  /\ UNCHANGED breathingRate

\* handleBreathTap
HandleBreathTap ==
  /\ breathCount < MaxTaps
  /\ IF isRecording
     THEN breathCount' = breathCount + 1 /\ arg' = arg + 1
     ELSE UNCHANGED <<breathCount, arg>>
  /\ UNCHANGED <<isRecording, countdown, breathingRate, timers>>

\* a second passes: the callback of setInterval runs the updater of
\* setCountdown
Interval ==
  \E timer \in timers :
    IF countdown <= 1
    THEN /\ timers' = timers \ {timer}
         /\ FinishRecording(timer)
         /\ countdown' = 0
         /\ UNCHANGED <<breathCount, arg>>
    ELSE /\ countdown' = countdown - 1
         /\ UNCHANGED <<isRecording, breathCount, breathingRate, timers, arg>>

\* the manual entry field, enabled while nothing is recorded
ManualEntry ==
  /\ ~isRecording
  /\ breathingRate' \in {<<>>, <<25>>}
  /\ UNCHANGED <<isRecording, countdown, breathCount, timers, arg>>

InitRecorder ==
  /\ RoutesIdle
  /\ arg = 0
  /\ ret = NoCall

RecorderFrame ==
  UNCHANGED <<users, vets, messages, now, resp, pets, breathingRates, ret,
              reminderVars, pageVars, authVars>>

NextRecorder ==
  \/ (StartRecording /\ RecorderFrame)
  \/ (HandleBreathTap /\ RecorderFrame)
  \/ (Interval /\ RecorderFrame)
  \/ (ManualEntry /\ RecorderFrame)

SpecRecorder == InitRecorder /\ [][NextRecorder]_vars

\* C29: when the countdown reaches zero the recording stops and
\* breathingRate becomes 4 times the number of calls of handleBreathTap
\* during that recording; a call while nothing is recorded leaves
\* breathCount as it is
C29_RateIsFourTimesTaps ==
  [][/\ (isRecording /\ countdown # 0 /\ countdown' = 0) =>
          ~isRecording' /\ breathingRate' = <<4 * arg>>
     /\ (~isRecording /\ ~isRecording') => breathCount' = breathCount]_vars

(* ------------------------ web: the AuthProvider ----------------------- *)
MaxLogins == 3

\* a token or a user is the list of one number: the number of the login
\* that issued the token, and the user that token stands for; null is the
\* empty list
IssuedToken(n) == <<n>>

\* the token found in localStorage at mount, issued before the page loaded
OldToken == IssuedToken(0)

NoToken == <<>>

\* the state after the mount effect: without a stored token nothing is
\* pending; with one, token is set and fetchCurrentUser(storedToken) waits
\* for its answer
InitAuth ==
  /\ RoutesIdle
  /\ arg = 0
  /\ ret = NoCall

AuthMount ==
  /\ ret = NoCall
  /\ \E found \in {NoToken, OldToken} :
       /\ storedToken' = found
       /\ authToken' = found
       /\ authCalls' = IF found = NoToken THEN {}
                       ELSE {[fn |-> "fetchCurrentUser", token |-> found]}
  /\ ret' = [fn |-> "mount", value |-> Null]
  /\ UNCHANGED <<authUser, arg>>

\* fetchCurrentUser(authToken) settles: /api/auth/me answers the user, or
\* the request fails
FetchCurrentUser ==
  \E call \in {c \in authCalls : c.fn = "fetchCurrentUser"}, ok \in BOOLEAN :
    /\ authCalls' = authCalls \ {call}
    /\ ret' = [fn |-> "fetchCurrentUser", value |-> Null]
    /\ IF ok
       THEN authUser' = call.token /\ UNCHANGED <<authToken, storedToken>>
       ELSE /\ storedToken' = NoToken
            /\ authToken' = NoToken
            /\ UNCHANGED authUser
    /\ UNCHANGED arg

\* login or register is called: the request is sent; arg counts the calls
LoginCalled ==
  /\ ret # NoCall
  /\ arg < MaxLogins
  /\ arg' = arg + 1
  /\ authCalls' = authCalls \cup {[fn |-> "login", token |-> IssuedToken(arg + 1)]}
  /\ ret' = [fn |-> "login", value |-> Null]
  /\ UNCHANGED <<authUser, authToken, storedToken>>

\* the answer of login or register arrives: a token and its user, or an
\* error, which is thrown to the caller
Login ==
  \E call \in {c \in authCalls : c.fn = "login"}, ok \in BOOLEAN :
    /\ authCalls' = authCalls \ {call}
    /\ ret' = [fn |-> "login", value |-> Null]
    /\ IF ok
       THEN /\ authToken' = call.token
            /\ authUser' = call.token
            /\ storedToken' = call.token
       ELSE UNCHANGED <<authUser, authToken, storedToken>>
    /\ UNCHANGED arg

\* logout
Logout ==
  /\ ret # NoCall
  /\ authUser' = NoToken
  /\ authToken' = NoToken
  /\ storedToken' = NoToken
  /\ ret' = [fn |-> "logout", value |-> Null]
  /\ UNCHANGED <<authCalls, arg>>

AuthFrame ==
  UNCHANGED <<users, vets, messages, now, resp, pets, breathingRates,
              reminderVars, pageVars, recorderVars>>

NextAuth ==
  \/ (AuthMount /\ AuthFrame)
  \/ (FetchCurrentUser /\ AuthFrame)
  \/ (LoginCalled /\ AuthFrame)
  \/ (Login /\ AuthFrame)
  \/ (Logout /\ AuthFrame)

SpecAuth == InitAuth /\ [][NextAuth]_vars

\* C30: user is non-null only while token is non-null and the stored token
\* equals the current token; after logout user, token and the stored token
\* are cleared; a failing fetchCurrentUser for an old stored token does not
\* remove a token obtained by a later login
C30_UserOnlyWithStoredToken ==
  /\ [](authUser # NoToken =>
          authToken # NoToken /\ storedToken = authToken)
  /\ [][ret'.fn = "logout" =>
          authUser' = NoToken /\ authToken' = NoToken
            /\ storedToken' = NoToken]_vars
  /\ [][(ret'.fn = "fetchCurrentUser" /\ authToken \notin {NoToken, OldToken})
          => authToken' = authToken /\ storedToken' = storedToken]_vars
====
